---- MODULE Spec2Model ----
(***************************************************************************)
(* Room registry and signaling relay of axi-vid (src/src/state.rs,         *)
(* src/src/handlers.rs, src/src/models.rs).                                *)
(*                                                                         *)
(* Spec     : the server as it runs: one handle_socket driver per          *)
(*            connection, the HTTP room handlers, the reaper, the clock;   *)
(*            three connections.                                           *)
(* PairSpec : the same server with two connections, more client frames     *)
(*            and every kind of frame.                                     *)
(* ApiSpec  : the public AppState operations called directly, in any       *)
(*            order and with any arguments.                                *)
(***************************************************************************)
EXTENDS Integers, Sequences, FiniteSets, TLC

\* ---------------------------------------------------------------- constants
MAX_PEERS_PER_ROOM == 2
ROOM_TIMEOUT == 300

\* ------------------------------------------------------------------- bounds
NumConns == 3
NumPair == 2
NumRooms == 2
MaxRecv == 1
MaxPairRecv == 2
MaxTime == 301
MaxCalls == 3

Conns == 1..NumConns
RoomIds == 1..NumRooms
\* durations by which the clock is observed to advance
TimeSteps == {ROOM_TIMEOUT + 1}

VARIABLES
  rooms,      \* AppState.rooms: room id -> Room, for the ids in the map
  now,        \* Instant::now()
  outbox,     \* per channel: the queue of the mpsc channel
  rxOpen,     \* per channel: the receiver half exists and is not dropped
  wire,       \* per connection: the text frames written to the socket
  pc,         \* per connection: position of handle_socket
  pump,       \* per connection: the spawned ws_sender task
  roomOf,     \* per connection: room_id of the upgrade request
  peerCount,  \* per connection: peer_count bound at the join
  sent,       \* per caller: number of messages it handed to the registry
  recvd,      \* frames read from sockets so far
  calls,      \* direct AppState calls so far (ApiSpec)
  last,       \* the latest direct AppState call (ApiSpec)
  idleSince   \* per room id: since when the room has been without peers

vars == <<rooms, now, outbox, rxOpen, wire, pc, pump, roomOf, peerCount,
          sent, recvd, calls, last, idleSince>>

\* ------------------------------------------------------------- models.rs
Offer == [type |-> "offer", peer_count |-> 0]
Answer == [type |-> "answer", peer_count |-> 0]
IceCandidate == [type |-> "ice", peer_count |-> 0]
Join == [type |-> "join", peer_count |-> 0]
Leave == [type |-> "leave", peer_count |-> 0]
Chat == [type |-> "chat", peer_count |-> 0]
MediaStatus == [type |-> "media_status", peer_count |-> 0]
PeerStatus == [type |-> "peer_status", peer_count |-> 0]
Error == [type |-> "error", peer_count |-> 0]
Ping == [type |-> "ping", peer_count |-> 0]
Pong == [type |-> "pong", peer_count |-> 0]

room_info(peer_count) == [type |-> "room_info", peer_count |-> peer_count]

WsMessage ==
  {Offer, Answer, IceCandidate, Join, Leave, Chat, MediaStatus, PeerStatus,
   Error, Ping, Pong} \cup {room_info(k) : k \in 0..MAX_PEERS_PER_ROOM}

\* A queued message, tagged with the caller that handed it to the registry
\* and that caller's running message number.
Envelope(msg, src, n) == [msg |-> msg, src |-> src, n |-> n]

\* ---------------------------------------------------------------- state.rs
Peer_new(id, sender) == [id |-> id, sender |-> sender]

\* created_at and Peer.joined_at are written once and never read: left out
Room_new == [peers |-> <<>>, last_activity |-> now]

\* a capacity test that is off by one
is_full_off_by_one(room) == Len(room.peers) > MAX_PEERS_PER_ROOM

is_full(room) == Len(room.peers) >= MAX_PEERS_PER_ROOM

add_peer(room, peer) ==
  IF is_full(room)
    THEN [ok |-> FALSE, room |-> room]
    ELSE [ok |-> TRUE,
          room |-> [room EXCEPT !.peers = Append(@, peer),
                                !.last_activity = now]]

\* position of the first peer with this id, 0 when there is none
position(peers, peer_id) ==
  LET hits == {i \in 1..Len(peers) : peers[i].id = peer_id}
  IN IF hits = {} THEN 0 ELSE CHOOSE i \in hits : \A j \in hits : i <= j

remove_at(s, pos) == SubSeq(s, 1, pos - 1) \o SubSeq(s, pos + 1, Len(s))

\* a removal that leaves last_activity as it was
remove_peer_untouched(room, peer_id) ==
  LET pos == position(room.peers, peer_id)
  IN IF pos > 0
       THEN [removed |-> TRUE, room |-> [room EXCEPT !.peers = remove_at(@, pos)]]
       ELSE [removed |-> FALSE, room |-> room]

remove_peer(room, peer_id) ==
  LET pos == position(room.peers, peer_id)
      touched == [room EXCEPT !.last_activity = now]
  IN IF pos > 0
       THEN [removed |-> TRUE,
             room |-> [touched EXCEPT !.peers = remove_at(@, pos)]]
       ELSE [removed |-> FALSE, room |-> touched]

\* a channel that hands out the newest message first
send_lifo(ob, chan, env) ==
  IF rxOpen[chan] THEN [ob EXCEPT ![chan] = <<env>> \o @] ELSE ob

\* UnboundedSender::send: queues unless the receiver was dropped
send(ob, chan, env) ==
  IF rxOpen[chan] THEN [ob EXCEPT ![chan] = Append(@, env)] ELSE ob

RECURSIVE broadcast_to_all(_, _, _)
broadcast_to_all(ob, peers, env) ==
  IF peers = <<>>
    THEN ob
    ELSE broadcast_to_all(send(ob, Head(peers).sender, env), Tail(peers), env)

\* a fan-out that forgets to skip the sender
broadcast_to_others_unfiltered(ob, peers, sender_id, env) ==
  broadcast_to_all(ob, peers, env)

\* a fan-out that gives up at the first peer whose receiver is gone
RECURSIVE broadcast_to_others_stop_on_error(_, _, _, _)
broadcast_to_others_stop_on_error(ob, peers, sender_id, env) ==
  IF peers = <<>>
    THEN ob
    ELSE LET peer == Head(peers)
         IN IF peer.id = sender_id
              THEN broadcast_to_others_stop_on_error(ob, Tail(peers), sender_id, env)
              ELSE IF rxOpen[peer.sender]
                THEN broadcast_to_others_stop_on_error(
                       send(ob, peer.sender, env), Tail(peers), sender_id, env)
                ELSE ob

RECURSIVE broadcast_to_others(_, _, _, _)
broadcast_to_others(ob, peers, sender_id, env) ==
  IF peers = <<>>
    THEN ob
    ELSE LET peer == Head(peers)
             ob1 == IF peer.id # sender_id THEN send(ob, peer.sender, env) ELSE ob
         IN broadcast_to_others(ob1, Tail(peers), sender_id, env)

is_inactive(room) ==
  room.peers = <<>> /\ now - room.last_activity > ROOM_TIMEOUT

\* a create that inserts without looking
create_room_overwrite(rs, room_id) ==
  [id \in DOMAIN rs \cup {room_id} |-> IF id = room_id THEN Room_new ELSE rs[id]]

create_room(rs, room_id) ==
  IF room_id \notin DOMAIN rs THEN rs @@ (room_id :> Room_new) ELSE rs

\* a join that installs the peer before it tests the capacity
join_room_check_after(rs, room_id, peer_id, sender) ==
  LET rs1 == IF room_id \in DOMAIN rs THEN rs ELSE rs @@ (room_id :> Room_new)
      pushed == [rs1[room_id] EXCEPT !.peers = Append(@, Peer_new(peer_id, sender)),
                                     !.last_activity = now]
      rs2 == [rs1 EXCEPT ![room_id] = pushed]
  IN IF Len(pushed.peers) > MAX_PEERS_PER_ROOM
       THEN [ok |-> FALSE, rooms |-> rs2, count |-> 0]
       ELSE [ok |-> TRUE, rooms |-> rs2, count |-> Len(pushed.peers)]

join_room(rs, room_id, peer_id, sender) ==
  LET rs1 == IF room_id \in DOMAIN rs THEN rs ELSE rs @@ (room_id :> Room_new)
      room == rs1[room_id]
  IN IF is_full(room)
       THEN [ok |-> FALSE, rooms |-> rs1, count |-> 0]
       ELSE LET r == add_peer(room, Peer_new(peer_id, sender))
            IN IF r.ok
                 THEN [ok |-> TRUE,
                       rooms |-> [rs1 EXCEPT ![room_id] = r.room],
                       count |-> Len(r.room.peers)]
                 ELSE [ok |-> FALSE, rooms |-> rs1, count |-> 0]

\* a leave that notifies the room before it removes the peer
leave_room_notify_first(rs, ob, room_id, peer_id, src, n) ==
  IF room_id \in DOMAIN rs
    THEN LET r == remove_peer(rs[room_id], peer_id)
             all == rs[room_id].peers
             rs1 == [rs EXCEPT ![room_id] = r.room]
         IN IF r.removed
              THEN LET ob1 == broadcast_to_all(ob, all, Envelope(Leave, src, n))
                       ob2 == broadcast_to_all(ob1, all,
                                 Envelope(room_info(Len(all)), src, n + 1))
                   IN [rooms |-> rs1, outbox |-> ob2]
              ELSE [rooms |-> rs1, outbox |-> ob]
    ELSE [rooms |-> rs, outbox |-> ob]

\* a leave that takes the room out of the registry with its last peer
leave_room_dropping_empty(rs, ob, room_id, peer_id, src, n) ==
  IF room_id \in DOMAIN rs
    THEN LET r == remove_peer(rs[room_id], peer_id)
             rs1 == [rs EXCEPT ![room_id] = r.room]
             rs2 == IF r.room.peers = <<>>
                      THEN [id \in DOMAIN rs \ {room_id} |-> rs[id]]
                      ELSE rs1
         IN IF r.removed
              THEN LET ob1 == broadcast_to_all(ob, r.room.peers,
                                               Envelope(Leave, src, n))
                       ob2 == broadcast_to_all(ob1, r.room.peers,
                                 Envelope(room_info(Len(r.room.peers)), src, n + 1))
                   IN [rooms |-> rs2, outbox |-> ob2]
              ELSE [rooms |-> rs1, outbox |-> ob]
    ELSE [rooms |-> rs, outbox |-> ob]

\* the two notifications carry the tags <<src, n>> and <<src, n + 1>>
leave_room(rs, ob, room_id, peer_id, src, n) ==
  IF room_id \in DOMAIN rs
    THEN LET r == remove_peer(rs[room_id], peer_id)
             rs1 == [rs EXCEPT ![room_id] = r.room]
         IN IF r.removed
              THEN LET ob1 == broadcast_to_all(ob, r.room.peers,
                                               Envelope(Leave, src, n))
                       ob2 == broadcast_to_all(ob1, r.room.peers,
                                 Envelope(room_info(Len(r.room.peers)), src, n + 1))
                   IN [rooms |-> rs1, outbox |-> ob2]
              ELSE [rooms |-> rs1, outbox |-> ob]
    ELSE [rooms |-> rs, outbox |-> ob]

relay_message(rs, ob, room_id, sender_id, env) ==
  IF room_id \in DOMAIN rs
    THEN broadcast_to_others(ob, rs[room_id].peers, sender_id, env)
    ELSE ob

get_peer_count(rs, room_id) ==
  IF room_id \in DOMAIN rs THEN Len(rs[room_id].peers) ELSE 0

\* a cleanup that goes by the age of last_activity alone
cleanup_by_age(rs) ==
  LET keep == {id \in DOMAIN rs : now - rs[id].last_activity <= ROOM_TIMEOUT}
  IN [id \in keep |-> rs[id]]

cleanup_inactive_rooms(rs) ==
  LET keep == {id \in DOMAIN rs : ~is_inactive(rs[id])}
  IN [id \in keep |-> rs[id]]

\* ------------------------------------------------------------- handlers.rs
\* Uuid::new_v4() of handle_socket: never an id handed out before; the
\* connections are numbered in the order they are accepted.
\* a peer id that two connections can share
NewPeerId_reused(c) == (c % 2) + 1

NewPeerId(c) == c

\* what a client can put on the socket
Garbage == [type |-> "?", peer_count |-> 0]
NonUtf8 == [type |-> "\\xff", peer_count |-> 0]
Frames ==
  {[kind |-> "text", data |-> m] : m \in WsMessage \cup {Garbage}}
    \cup {[kind |-> "binary", data |-> m] : m \in {Offer, NonUtf8}}
    \cup {[kind |-> k, data |-> Garbage] : k \in {"ping", "pong"}}

\* the frames tried where three connections and two rooms are explored
SpecFrames ==
  {[kind |-> "text", data |-> m] : m \in {Offer, Garbage}}

\* serde_json::from_str::<WsMessage>
from_str(text) == [ok |-> text \in WsMessage, msg |-> text]

\* a dispatch that relays whatever parses
relayed_for_anything(msg) == [relay |-> TRUE, msg |-> msg]

\* the message handle_text_message hands to relay_message, if any
relayed_for(msg) ==
  IF msg \in {Offer, Answer, IceCandidate, Chat, MediaStatus}
    THEN [relay |-> TRUE, msg |-> msg]
    ELSE IF msg = Ping
      THEN [relay |-> TRUE, msg |-> Pong]
      ELSE [relay |-> FALSE, msg |-> msg]

\* a handler that answers a Ping to the connection it came from
handle_text_message_pong_back(rs, ob, text, room_id, peer_id, src, n) ==
  LET parsed == from_str(text)
      out == relayed_for(parsed.msg)
  IN IF parsed.ok /\ out.relay
       THEN [relayed |-> TRUE,
             outbox |-> IF parsed.msg = Ping
                          THEN send(ob, src, Envelope(Pong, src, n))
                          ELSE relay_message(rs, ob, room_id, peer_id,
                                             Envelope(out.msg, src, n))]
       ELSE [relayed |-> FALSE, outbox |-> ob]

handle_text_message(rs, ob, text, room_id, peer_id, src, n) ==
  LET parsed == from_str(text)
      out == relayed_for(parsed.msg)
  IN IF parsed.ok /\ out.relay
       THEN [relayed |-> TRUE,
             outbox |-> relay_message(rs, ob, room_id, peer_id,
                                      Envelope(out.msg, src, n))]
       ELSE [relayed |-> FALSE, outbox |-> ob]

\* the frame written by handle_socket itself, not taken from the channel
Direct(msg) == Envelope(msg, 0, 0)

NoCall == [op |-> "none", room_id |-> 0, peer_id |-> 0]

\* no time: the room holds a peer, or the id was never in the registry
Never == 0 - 1

\* Since when each room of the registry rs1 that this step leaves or makes
\* empty has been without peers: a room already empty keeps its time, one
\* that is new or just lost its last peer gets the current time, one that
\* holds peers gets none; the time of a room no longer in the registry stays.
idle_since(rs1) ==
  [id \in RoomIds |->
     IF id \notin DOMAIN rs1
       THEN idleSince[id]
       ELSE IF rs1[id].peers # <<>>
         THEN Never
         ELSE IF id \in DOMAIN rooms /\ rooms[id].peers = <<>>
           THEN idleSince[id]
           ELSE now]

Init ==
  /\ rooms = [id \in {} |-> Room_new]
  /\ now = 0
  /\ outbox = [c \in Conns |-> <<>>]
  /\ rxOpen = [c \in Conns |-> FALSE]
  /\ wire = [c \in Conns |-> <<>>]
  /\ pc = [c \in Conns |-> "idle"]
  /\ pump = [c \in Conns |-> "none"]
  /\ roomOf = [c \in Conns |-> 0]
  /\ peerCount = [c \in Conns |-> 0]
  /\ sent = [c \in Conns |-> 0]
  /\ recvd = 0
  /\ calls = 0
  /\ last = NoCall
  /\ idleSince = [id \in RoomIds |-> Never]

\* Room ids are Uuids a client or the server picks; they are numbered in the
\* order they are first used.
InOrder(r) ==
  \A q \in RoomIds :
    q < r => q \in DOMAIN rooms \/ \E c \in Conns : roomOf[c] = q

\* a driver whose outbound pump runs from the moment of the join
Connect_pump_first(c, r) ==
  /\ pc[c] = "idle"
  /\ \A d \in Conns : d < c => pc[d] # "idle"
  /\ InOrder(r)
  /\ LET res == join_room(rooms, r, NewPeerId(c), c)
     IN /\ rooms' = res.rooms
        /\ peerCount' = [peerCount EXCEPT ![c] = res.count]
        /\ pc' = [pc EXCEPT ![c] = IF res.ok THEN "ack" ELSE "reject"]
        /\ pump' = [pump EXCEPT ![c] = IF res.ok THEN "running" ELSE @]
  /\ roomOf' = [roomOf EXCEPT ![c] = r]
  /\ rxOpen' = [rxOpen EXCEPT ![c] = TRUE]
  /\ UNCHANGED <<now, outbox, wire, sent, recvd, calls, last>>
  /\ idleSince' = idle_since(rooms')

\* handle_socket up to the result of join_room
Connect(c, r) ==
  /\ pc[c] = "idle"
  /\ \A d \in Conns : d < c => pc[d] # "idle"
  /\ InOrder(r)
  /\ LET res == join_room(rooms, r, NewPeerId(c), c)
     IN /\ rooms' = res.rooms
        /\ peerCount' = [peerCount EXCEPT ![c] = res.count]
        /\ pc' = [pc EXCEPT ![c] = IF res.ok THEN "ack" ELSE "reject"]
  /\ roomOf' = [roomOf EXCEPT ![c] = r]
  /\ rxOpen' = [rxOpen EXCEPT ![c] = TRUE]
  /\ UNCHANGED <<now, outbox, wire, pump, sent, recvd, calls, last>>
  /\ idleSince' = idle_since(rooms')

\* the Err arm: one error frame, then return
SendError(c) ==
  /\ pc[c] = "reject"
  /\ wire' = [wire EXCEPT ![c] = Append(@, Direct(Error))]
  /\ pc' = [pc EXCEPT ![c] = "closed"]
  /\ rxOpen' = [rxOpen EXCEPT ![c] = FALSE]
  /\ UNCHANGED <<rooms, now, outbox, pump, roomOf, peerCount, sent, recvd, calls, last, idleSince>>

\* a driver that starts its pumps right after the acknowledgement
SendRoomInfo_then_run(c) ==
  /\ pc[c] = "ack"
  /\ wire' = [wire EXCEPT ![c] = Append(@, Direct(room_info(peerCount[c])))]
  /\ pc' = [pc EXCEPT ![c] = "running"]
  /\ pump' = [pump EXCEPT ![c] = "running"]
  /\ UNCHANGED <<rooms, now, outbox, rxOpen, roomOf, peerCount, sent, recvd,
                 calls, last, idleSince>>

\* "Send room info to the new peer"
SendRoomInfo(c) ==
  /\ pc[c] = "ack"
  /\ wire' = [wire EXCEPT ![c] = Append(@, Direct(room_info(peerCount[c])))]
  /\ pc' = [pc EXCEPT ![c] = "notify_join"]
  /\ UNCHANGED <<rooms, now, outbox, rxOpen, pump, roomOf, peerCount, sent,
                 recvd, calls, last, idleSince>>

\* "Notify other peer about the new joiner": relay_message(Join)
NotifyJoin(c) ==
  /\ pc[c] = "notify_join"
  /\ outbox' = relay_message(rooms, outbox, roomOf[c], NewPeerId(c),
                             Envelope(Join, c, sent[c] + 1))
  /\ sent' = [sent EXCEPT ![c] = @ + 1]
  /\ pc' = [pc EXCEPT ![c] = "notify_info"]
  /\ UNCHANGED <<rooms, now, rxOpen, wire, pump, roomOf, peerCount, recvd, calls, last, idleSince>>

\* relay_message(room_info(peer_count)), then the two pumps start
NotifyRoomInfo(c) ==
  /\ pc[c] = "notify_info"
  /\ outbox' = relay_message(rooms, outbox, roomOf[c], NewPeerId(c),
                             Envelope(room_info(peerCount[c]), c, sent[c] + 1))
  /\ sent' = [sent EXCEPT ![c] = @ + 1]
  /\ pc' = [pc EXCEPT ![c] = "running"]
  /\ pump' = [pump EXCEPT ![c] = "running"]
  /\ UNCHANGED <<rooms, now, rxOpen, wire, roomOf, peerCount, recvd, calls, last, idleSince>>

\* ws_receiver: one frame read from the socket
Receive(c, frame, limit) ==
  /\ pc[c] = "running"
  /\ recvd < limit
  /\ recvd' = recvd + 1
  /\ IF frame.kind \in {"text", "binary"} /\ frame.data # NonUtf8
       THEN LET h == handle_text_message(rooms, outbox, frame.data, roomOf[c],
                                         NewPeerId(c), c, sent[c] + 1)
            IN /\ outbox' = h.outbox
               /\ sent' = [sent EXCEPT ![c] = IF h.relayed THEN @ + 1 ELSE @]
       ELSE UNCHANGED <<outbox, sent, last>>
  /\ UNCHANGED <<rooms, now, rxOpen, wire, pc, pump, roomOf, peerCount, calls, last, idleSince>>

\* ws_receiver ends (Close frame, read error, end of stream): select! returns
\* and the ws_sender task, whose handle is dropped, keeps running
ReceiverEnds(c) ==
  /\ pc[c] = "running"
  /\ pc' = [pc EXCEPT ![c] = "leaving"]
  /\ UNCHANGED <<rooms, now, outbox, rxOpen, wire, pump, roomOf, peerCount,
                 sent, recvd, calls, last, idleSince>>

\* ws_sender: one message taken from the channel and written
PumpWrite(c) ==
  /\ pump[c] = "running"
  /\ outbox[c] # <<>>
  /\ wire' = [wire EXCEPT ![c] = Append(@, Head(outbox[c]))]
  /\ outbox' = [outbox EXCEPT ![c] = Tail(@)]
  /\ UNCHANGED <<rooms, now, rxOpen, pc, pump, roomOf, peerCount, sent, recvd, calls, last, idleSince>>

\* ws_sender: the write fails, the task ends and drops the receiver and its
\* half of the socket, which closes
PumpFail(c) ==
  /\ pump[c] = "running"
  /\ outbox[c] # <<>>
  /\ pump' = [pump EXCEPT ![c] = "ended"]
  /\ rxOpen' = [rxOpen EXCEPT ![c] = FALSE]
  /\ outbox' = [outbox EXCEPT ![c] = <<>>]
  /\ wire' = [wire EXCEPT ![c] = <<>>]
  /\ pc' = [pc EXCEPT ![c] = IF @ = "running" THEN "leaving" ELSE @]
  /\ UNCHANGED <<rooms, now, roomOf, peerCount, sent, recvd, calls, last, idleSince>>

\* ws_sender: recv() returns None once the Peer and its sender are dropped
PumpExit(c) ==
  /\ pump[c] = "running"
  /\ outbox[c] = <<>>
  /\ pc[c] = "gone"
  /\ pump' = [pump EXCEPT ![c] = "ended"]
  /\ rxOpen' = [rxOpen EXCEPT ![c] = FALSE]
  /\ wire' = [wire EXCEPT ![c] = <<>>]
  /\ UNCHANGED <<rooms, now, outbox, pc, roomOf, peerCount, sent, recvd, calls, last, idleSince>>

\* a driver that returns without its leave_room
Disconnect_without_leave(c) ==
  /\ pc[c] = "leaving"
  /\ sent' = [sent EXCEPT ![c] = 0]
  /\ roomOf' = [roomOf EXCEPT ![c] = 0]
  /\ peerCount' = [peerCount EXCEPT ![c] = 0]
  /\ pc' = [pc EXCEPT ![c] = "gone"]
  /\ UNCHANGED <<rooms, now, outbox, rxOpen, wire, pump, recvd, calls, last,
                 idleSince>>

\* "Clean up: remove peer from room", then handle_socket returns and its
\* locals are gone
Disconnect(c) ==
  /\ pc[c] = "leaving"
  /\ LET res == leave_room(rooms, outbox, roomOf[c], NewPeerId(c), c, sent[c] + 1)
     IN /\ rooms' = res.rooms
        /\ outbox' = res.outbox
  /\ sent' = [sent EXCEPT ![c] = 0]
  /\ roomOf' = [roomOf EXCEPT ![c] = 0]
  /\ peerCount' = [peerCount EXCEPT ![c] = 0]
  /\ pc' = [pc EXCEPT ![c] = "gone"]
  /\ UNCHANGED <<now, rxOpen, wire, pump, recvd, calls, last>>
  /\ idleSince' = idle_since(rooms')

\* handlers::create_room and index_redirect: a room under a new Uuid
HttpCreateRoom(r) ==
  /\ r \notin DOMAIN rooms
  /\ InOrder(r)
  /\ rooms' = create_room(rooms, r)
  /\ UNCHANGED <<now, outbox, rxOpen, wire, pc, pump, roomOf, peerCount, sent,
                 recvd, calls, last>>
  /\ idleSince' = idle_since(rooms')

\* spawn_cleanup_task: one tick of the interval
ReaperTick ==
  /\ rooms' = cleanup_inactive_rooms(rooms)
  /\ UNCHANGED <<now, outbox, rxOpen, wire, pc, pump, roomOf, peerCount, sent,
                 recvd, calls, last>>
  /\ idleSince' = idle_since(rooms')

\* time passes
AdvanceTime(d) ==
  /\ now + d <= MaxTime
  /\ now' = now + d
  /\ UNCHANGED <<rooms, outbox, rxOpen, wire, pc, pump, roomOf, peerCount, sent,
                 recvd, calls, last, idleSince>>

\* The server with connections C, room ids R, client frames F, at most K
\* frames read and clock steps T; every join is admitted.
Admitting(C, R, F, K, T) ==
  \/ \E c \in C, r \in R : Connect(c, r)
  \/ \E c \in C : SendRoomInfo(c)
  \/ \E c \in C : NotifyJoin(c)
  \/ \E c \in C : NotifyRoomInfo(c)
  \/ \E c \in C, frame \in F : Receive(c, frame, K)
  \/ \E c \in C : ReceiverEnds(c)
  \/ \E c \in C : PumpWrite(c)
  \/ \E c \in C : PumpFail(c)
  \/ \E c \in C : PumpExit(c)
  \/ \E c \in C : Disconnect(c)
  \/ \E r \in R : HttpCreateRoom(r)
  \/ ReaperTick
  \/ \E d \in T : AdvanceTime(d)

\* The same with enough connections for a join to be turned away.
Server(C, R, F, K, T) ==
  \/ Admitting(C, R, F, K, T)
  \/ \E c \in C : SendError(c)

Next == Server(Conns, RoomIds, SpecFrames, MaxRecv, TimeSteps)

\* three connections, two room ids
Spec == Init /\ [][Next]_vars

NextPair == Admitting(1..NumPair, RoomIds, Frames, MaxPairRecv, TimeSteps)

\* two connections (no room can be full for a joiner), every kind of frame
PairSpec == Init /\ [][NextPair]_vars

\* the drivers of three connections to one room id, their pumps and one
\* client frame; no reaper, no clock
NextLive ==
  \/ \E c \in Conns : Connect(c, 1)
  \/ \E c \in Conns : SendError(c)
  \/ \E c \in Conns : SendRoomInfo(c)
  \/ \E c \in Conns : NotifyJoin(c)
  \/ \E c \in Conns : NotifyRoomInfo(c)
  \/ \E c \in Conns, frame \in SpecFrames : Receive(c, frame, MaxRecv)
  \/ \E c \in Conns : ReceiverEnds(c)
  \/ \E c \in Conns : PumpWrite(c)
  \/ \E c \in Conns : PumpFail(c)
  \/ \E c \in Conns : PumpExit(c)
  \/ \E c \in Conns : Disconnect(c)

\* The runtime keeps polling a driver that is past its select! until its
\* leave_room returns (the registry's mutex is fair), and keeps polling the
\* spawned ws_sender task, whose write or recv completes one way or another.
Fairness ==
  \A c \in Conns :
    /\ WF_vars(Disconnect(c))
    /\ WF_vars(PumpWrite(c) \/ PumpFail(c) \/ PumpExit(c))

LiveSpec == Init /\ [][NextLive]_vars /\ Fairness

\* ------------------------------------------- AppState called directly
Call(op, room_id, peer_id) ==
  /\ calls < MaxCalls
  /\ calls' = calls + 1
  /\ last' = [op |-> op, room_id |-> room_id, peer_id |-> peer_id]

ApiCreateRoom(r) ==
  /\ Call("create_room", r, 0)
  /\ rooms' = create_room(rooms, r)
  /\ UNCHANGED <<now, outbox, rxOpen, wire, pc, pump, roomOf, peerCount, sent,
                 recvd>>
  /\ idleSince' = idle_since(rooms')

\* the caller makes a channel, keeps the receiver and hands over the sender
ApiJoinRoom(r, p, chan) ==
  /\ pc[chan] = "idle"
  /\ \A d \in Conns : d < chan => pc[d] # "idle"
  /\ Call("join_room", r, p)
  /\ rooms' = join_room(rooms, r, p, chan).rooms
  /\ rxOpen' = [rxOpen EXCEPT ![chan] = TRUE]
  /\ pc' = [pc EXCEPT ![chan] = "api"]
  /\ UNCHANGED <<now, outbox, wire, pump, roomOf, peerCount, sent, recvd>>
  /\ idleSince' = idle_since(rooms')

ApiLeaveRoom(r, p) ==
  /\ Call("leave_room", r, p)
  /\ LET res == leave_room(rooms, outbox, r, p, p, sent[p] + 1)
     IN /\ rooms' = res.rooms
        /\ outbox' = res.outbox
  /\ sent' = [sent EXCEPT ![p] = @ + 2]
  /\ UNCHANGED <<now, rxOpen, wire, pc, pump, roomOf, peerCount, recvd>>
  /\ idleSince' = idle_since(rooms')

ApiRelayMessage(r, p, msg) ==
  /\ Call("relay_message", r, p)
  /\ outbox' = relay_message(rooms, outbox, r, p, Envelope(msg, p, sent[p] + 1))
  /\ sent' = [sent EXCEPT ![p] = @ + 1]
  /\ UNCHANGED <<rooms, now, rxOpen, wire, pc, pump, roomOf, peerCount, recvd, idleSince>>

\* the caller drops the receiver of a channel it made
ApiDropReceiver(chan) ==
  /\ rxOpen[chan]
  /\ rxOpen' = [rxOpen EXCEPT ![chan] = FALSE]
  /\ outbox' = [outbox EXCEPT ![chan] = <<>>]
  /\ UNCHANGED <<rooms, now, wire, pc, pump, roomOf, peerCount, sent, recvd,
                 calls, last, idleSince>>

NextApi ==
  \/ \E r \in RoomIds : ApiCreateRoom(r)
  \/ \E r \in RoomIds, p \in 1..NumPair, chan \in Conns : ApiJoinRoom(r, p, chan)
  \/ \E r \in RoomIds, p \in 1..NumPair : ApiLeaveRoom(r, p)
  \/ \E r \in RoomIds, p \in 1..NumPair, msg \in {Offer} : ApiRelayMessage(r, p, msg)
  \/ \E chan \in Conns : ApiDropReceiver(chan)
  \/ ReaperTick
  \/ \E d \in TimeSteps : AdvanceTime(d)

\* the registry operations in any order, with any arguments
ApiSpec == Init /\ [][NextApi]_vars

\* ------------------------------------ the registry against the clock
ApiGetPeerCount(r) ==
  /\ Call("get_peer_count", r, 0)
  /\ UNCHANGED <<rooms, now, outbox, rxOpen, wire, pc, pump, roomOf, peerCount,
                 sent, recvd, idleSince>>

\* cleanup_inactive_rooms called once, as the reaper's loop does on a tick
ApiCleanupInactiveRooms ==
  /\ Call("cleanup_inactive_rooms", 0, 0)
  /\ rooms' = cleanup_inactive_rooms(rooms)
  /\ UNCHANGED <<now, outbox, rxOpen, wire, pc, pump, roomOf, peerCount, sent,
                 recvd>>
  /\ idleSince' = idle_since(rooms')

\* clock steps that put an idle time on the threshold and past it
ReaperSteps == {ROOM_TIMEOUT, ROOM_TIMEOUT + 1}

NextReaper ==
  \/ \E r \in RoomIds : ApiCreateRoom(r)
  \/ \E r \in RoomIds, p \in 1..NumPair, chan \in Conns : ApiJoinRoom(r, p, chan)
  \/ \E r \in RoomIds, p \in 1..NumPair : ApiLeaveRoom(r, p)
  \/ \E r \in RoomIds, p \in 1..NumPair, msg \in {Offer} : ApiRelayMessage(r, p, msg)
  \/ \E r \in RoomIds : ApiGetPeerCount(r)
  \/ ApiCleanupInactiveRooms
  \/ \E d \in ReaperSteps : AdvanceTime(d)

\* the registry operations and the reaper's call, with the clock on and
\* around the idle threshold
ReaperSpec == Init /\ [][NextReaper]_vars

\* ---------------------------------------------------------------- claims
SendersOf(room) == {room.peers[i].sender : i \in 1..Len(room.peers)}

\* C1: in every reachable state every room of the registry holds at most
\* MAX_PEERS_PER_ROOM (2) peers, whatever the interleaving of joins, leaves,
\* relays, room creations and reaper ticks.
C1_AtMostTwoPeers ==
  \A id \in DOMAIN rooms : Len(rooms[id].peers) <= MAX_PEERS_PER_ROOM

\* a full room that has turned a third connection away, after the clock moved
C1_Witness ==
  /\ now > 0
  /\ \E c \in Conns :
       /\ pc[c] = "closed"
       /\ roomOf[c] \in DOMAIN rooms
       /\ Len(rooms[roomOf[c]].peers) = MAX_PEERS_PER_ROOM

\* C2: in every reachable state the peer ids held in one room are pairwise
\* distinct.
C2_DistinctPeerIds ==
  \A id \in DOMAIN rooms :
    \A i, j \in 1..Len(rooms[id].peers) :
      i # j => rooms[id].peers[i].id # rooms[id].peers[j].id

\* two peers in a room that an earlier peer has left
C2_Witness ==
  \E id \in DOMAIN rooms :
    /\ Len(rooms[id].peers) = 2
    /\ \E c \in Conns : pc[c] = "gone" /\ c < rooms[id].peers[2].sender

\* C3: a join_room on a room that holds 2 peers is rejected and changes neither
\* the registry (peer list, peer count still 2) nor any outbox; a join_room on
\* a room with fewer peers succeeds and appends the peer; a rejected connection
\* goes on to nothing but its error frame: no relay_message, no leave_room.
C3_RoomFullRejects ==
  [][\A c \in Conns :
       /\ (pc[c] = "idle" /\ pc'[c] # "idle") =>
            LET r == roomOf'[c]
                before == IF r \in DOMAIN rooms THEN rooms[r].peers ELSE <<>>
            IN IF Len(before) >= MAX_PEERS_PER_ROOM
                 THEN /\ pc'[c] = "reject"
                      /\ rooms' = rooms
                      /\ outbox' = outbox
                      /\ get_peer_count(rooms', r) = 2
                 ELSE /\ pc'[c] = "ack"
                      /\ rooms'[r].peers = Append(before, Peer_new(NewPeerId(c), c))
                      /\ peerCount'[c] = Len(before) + 1
       /\ pc[c] \in {"reject", "closed"} =>
            /\ pc'[c] \in {"reject", "closed"}
            /\ sent'[c] = 0
            /\ pc'[c] # pc[c] => rooms' = rooms /\ outbox' = outbox
    ]_vars

\* a third connection just rejected by a room whose two peers have mail queued
C3_Witness ==
  \E c \in Conns :
    /\ pc[c] = "reject"
    /\ roomOf[c] \in DOMAIN rooms
    /\ Len(rooms[roomOf[c]].peers) = 2
    /\ \A d \in SendersOf(rooms[roomOf[c]]) : outbox[d] # <<>>

\* connection d holds a peer of room r
InRoom(d, r) == r \in DOMAIN rooms /\ d \in SendersOf(rooms[r])

\* everything queued for connection d and not lost: written, then waiting
Stream(d) == wire[d] \o outbox[d]

FromSrc(seq, a) == LET from(e) == e.src = a IN SelectSeq(seq, from)

\* C4: a relay_message by connection c appends the message to the outbox of
\* every other connection that holds a peer of c's room (and still has its
\* receiver) and changes no other outbox: not c's own, not one of another room.
C4_RelayToOthersOnly ==
  [][\A c \in Conns :
       sent'[c] = sent[c] + 1 =>
         \E m \in WsMessage :
           \A d \in Conns :
             outbox'[d] =
               IF d # c /\ InRoom(d, roomOf[c]) /\ rxOpen[d]
                 THEN Append(outbox[d], Envelope(m, c, sent'[c]))
                 ELSE outbox[d]
    ]_vars

\* an Offer of c sits with its room mate and with nobody else, while a third
\* connection is running in another room
C4_Witness ==
  \E c, d, x \in Conns :
    /\ c # d /\ x # c /\ x # d
    /\ InRoom(c, roomOf[c]) /\ InRoom(d, roomOf[c])
    /\ pc[x] = "running" /\ roomOf[x] # roomOf[c] /\ InRoom(x, roomOf[x])
    /\ \E i \in 1..Len(outbox[d]) : outbox[d][i] = Envelope(Offer, c, 3)
    /\ FromSrc(Stream(x), c) = <<>>
    /\ FromSrc(Stream(c), c) = <<>>

\* C5: the messages one connection relays reach each recipient in the order
\* relayed and without a gap: on the recipient's wire followed by its outbox
\* the numbers of one sender's messages are consecutive, so m1 is written
\* before m2.
C5_FifoPerSender ==
  \A d, a \in Conns :
    LET s == FromSrc(Stream(d), a)
    IN \A k \in 1..(Len(s) - 1) : s[k + 1].n = s[k].n + 1

\* two client messages of one sender written to the other's wire
C5_Witness ==
  \E d, a \in Conns :
    LET client(e) == e.src = a /\ e.n >= 3 /\ e.msg.type \notin {"leave", "room_info"}
    IN Len(SelectSeq(wire[d], client)) >= 2

\* C6 (as claimed): from the admission of a second peer until its Join and
\* RoomInfo notifications are queued, no other registry operation takes
\* effect: its room stays as it is and nothing else is enqueued.
C6_NotifyInJoinCriticalSection ==
  [][\A c \in Conns :
       (/\ peerCount[c] = 2
        /\ pc[c] \in {"ack", "notify_join", "notify_info"}
        /\ pc'[c] = pc[c])
         => /\ roomOf[c] \in DOMAIN rooms'
            /\ rooms'[roomOf[c]] = rooms[roomOf[c]]
            /\ \A d \in Conns : Len(outbox'[d]) <= Len(outbox[d])
    ]_vars

\* d was admitted to the room before a, and both are still in it
AdmittedBefore(d, a) ==
  \E r \in DOMAIN rooms :
    \E i, j \in 1..Len(rooms[r].peers) :
      i < j /\ rooms[r].peers[i].sender = d /\ rooms[r].peers[j].sender = a

RelayKinds == {Offer, Answer, IceCandidate, Chat, MediaStatus}

\* C7: when a is admitted to a room that holds d, whatever d is sent of a's
\* Offer, Answer, IceCandidate, Chat or MediaStatus messages comes after a's
\* Join and then a's RoomInfo.
C7_JoinBeforeRelay ==
  \A d, a \in Conns :
    AdmittedBefore(d, a) =>
      \A j \in 1..Len(Stream(d)) :
        (Stream(d)[j].src = a /\ Stream(d)[j].msg \in RelayKinds) =>
          \E i, k \in 1..j :
            /\ i < k /\ k < j
            /\ Stream(d)[i] = Envelope(Join, a, 1)
            /\ Stream(d)[k] = Envelope(room_info(2), a, 2)

\* d has a's Join, RoomInfo and a relayed message
C7_Witness ==
  \E d, a \in Conns :
    /\ AdmittedBefore(d, a)
    /\ \E j \in 1..Len(Stream(d)) :
         Stream(d)[j].src = a /\ Stream(d)[j].msg \in RelayKinds

\* C8 (as claimed): the RoomInfo a join enqueues on another peer's outbox
\* carries the number of peers the room holds when it is enqueued.
C8_RoomInfoCountCurrent ==
  [][\A c \in Conns :
       (pc[c] = "notify_info" /\ pc'[c] = "running") =>
         \A d \in Conns :
           Len(outbox'[d]) > Len(outbox[d]) =>
             outbox'[d][Len(outbox'[d])].msg
               = room_info(get_peer_count(rooms, roomOf[c]))
    ]_vars

FirstWithId(peers, peer_id) ==
  LET hits == {i \in 1..Len(peers) : peers[i].id = peer_id}
  IN IF hits = {} THEN 0 ELSE CHOOSE i \in hits : \A j \in hits : i <= j

\* C9: leave_room(r, p) for a peer in the room removes it and then appends
\* Leave and RoomInfo{remaining}, in that order, to the outbox of every peer
\* still in the room (that still has its receiver) and to no other outbox, the
\* leaver's included; for an id not in the room it enqueues nothing and leaves
\* the peer lists as they are.
C9_LeaveNotifiesRemaining ==
  [][(calls' = calls + 1 /\ last'.op = "leave_room") =>
       LET r == last'.room_id
           p == last'.peer_id
           before == IF r \in DOMAIN rooms THEN rooms[r].peers ELSE <<>>
           pos == FirstWithId(before, p)
       IN /\ DOMAIN rooms' = DOMAIN rooms
          /\ \A q \in DOMAIN rooms : q # r => rooms'[q] = rooms[q]
          /\ IF pos = 0
               THEN /\ outbox' = outbox
                    /\ r \in DOMAIN rooms => rooms'[r].peers = before
               ELSE LET after == rooms'[r].peers
                        left == {after[i].sender : i \in 1..Len(after)}
                    IN /\ after = SubSeq(before, 1, pos - 1)
                                    \o SubSeq(before, pos + 1, Len(before))
                       /\ before[pos].sender \notin left
                       /\ \A d \in Conns :
                            outbox'[d] =
                              IF d \in left /\ rxOpen[d]
                                THEN outbox[d]
                                       \o <<Envelope(Leave, p, sent[p] + 1),
                                            Envelope(room_info(Len(after)), p,
                                                     sent[p] + 2)>>
                                ELSE outbox[d]
    ]_vars

\* a leave_room has just told the one remaining peer
C9_Witness ==
  /\ last.op = "leave_room"
  /\ last.room_id \in DOMAIN rooms
  /\ Len(rooms[last.room_id].peers) = 1
  /\ LET d == rooms[last.room_id].peers[1].sender
         k == Len(outbox[d])
     IN /\ k >= 2
        /\ outbox[d][k - 1].msg = Leave
        /\ outbox[d][k] = Envelope(room_info(1), last.peer_id, sent[last.peer_id])

\* C10: create_room on an id that is in the registry changes nothing: not the
\* registry (peer lists, last_activity) and no outbox.
C10_CreateRoomIdempotent ==
  [][(/\ calls' = calls + 1
      /\ last'.op = "create_room"
      /\ last'.room_id \in DOMAIN rooms)
       => rooms' = rooms /\ outbox' = outbox
    ]_vars

\* create_room was just called on a room that holds a peer and was last
\* touched before now
C10_Witness ==
  /\ last.op = "create_room"
  /\ last.room_id \in DOMAIN rooms
  /\ rooms[last.room_id].peers # <<>>
  /\ rooms[last.room_id].last_activity < now

\* the latest step was a direct call of op
Called(op) == calls' = calls + 1 /\ last'.op = op

\* room r is in the registry and has been without peers for longer than
\* ROOM_TIMEOUT
IdleTooLong(r) ==
  /\ r \in DOMAIN rooms
  /\ rooms[r].peers = <<>>
  /\ now - idleSince[r] > ROOM_TIMEOUT

\* C11 (as claimed): a room that has had no peers for longer than ROOM_TIMEOUT
\* is absent from the registry after the next cleanup, whatever create_room,
\* leave_room, relay_message or get_peer_count calls it saw while empty.
C11_IdleRoomReaped ==
  [][Called("cleanup_inactive_rooms") =>
       \A r \in RoomIds : IdleTooLong(r) => r \notin DOMAIN rooms'
    ]_vars

\* C12: leave_room takes no room out of the registry: when the last peer
\* leaves, its room stays with 0 peers; a join_room on a room that is in the
\* registry with 0 peers succeeds on it and returns peer count 1.
C12_LeaveKeepsRoom ==
  [][LET r == last'.room_id
         p == last'.peer_id
     IN /\ Called("leave_room") =>
             /\ DOMAIN rooms' = DOMAIN rooms
             /\ (r \in DOMAIN rooms /\ Len(rooms[r].peers) = 1
                   /\ rooms[r].peers[1].id = p)
                  => rooms'[r].peers = <<>>
        /\ (Called("join_room") /\ r \in DOMAIN rooms /\ rooms[r].peers = <<>>) =>
             /\ DOMAIN rooms' = DOMAIN rooms
             /\ Len(rooms'[r].peers) = 1
             /\ rooms'[r].peers[1].id = p
             /\ \E chan \in Conns :
                  LET res == join_room(rooms, r, p, chan)
                  IN res.ok /\ res.count = 1 /\ res.rooms = rooms'
    ]_vars

\* three calls on one room id: a join, the leave of that peer, and a second
\* join that found the room empty and is now its only peer
C12_Witness ==
  /\ calls = 3
  /\ last.op = "join_room"
  /\ DOMAIN rooms = {last.room_id}
  /\ Len(rooms[last.room_id].peers) = 1
  /\ rooms[last.room_id].peers[1].sender = 2
  /\ pc[1] = "api"
  /\ sent[1] + sent[2] = 2

\* C13 (as claimed): is_inactive holds of a room exactly when it has no peers
\* and the time since its last_activity is at least ROOM_TIMEOUT; an empty
\* room idle for exactly ROOM_TIMEOUT is inactive.
C13_InactiveFromThreshold ==
  \A r \in DOMAIN rooms :
    is_inactive(rooms[r])
      <=> (rooms[r].peers = <<>> /\ now - rooms[r].last_activity >= ROOM_TIMEOUT)

\* C14 (as claimed): every add_peer, every remove_peer and every relay_message
\* that delivers through a room sets the room's last_activity to the current
\* time.
C14_ActivityAdvances ==
  [][LET r == last'.room_id
     IN /\ (Called("join_room") /\ r \in DOMAIN rooms
              /\ Len(rooms'[r].peers) = Len(rooms[r].peers) + 1)
             => rooms'[r].last_activity = now
        /\ (Called("leave_room") /\ r \in DOMAIN rooms)
             => rooms'[r].last_activity = now
        /\ (Called("relay_message") /\ r \in DOMAIN rooms /\ outbox' # outbox)
             => rooms'[r].last_activity = now
    ]_vars

\* C15: cleanup_inactive_rooms removes exactly the rooms for which is_inactive
\* holds when it is called and leaves every other room as it is, peers and
\* last_activity; a room that holds a peer stays, however old its
\* last_activity.
C15_CleanupRemovesInactiveOnly ==
  [][Called("cleanup_inactive_rooms") =>
       /\ DOMAIN rooms' = {r \in DOMAIN rooms : ~is_inactive(rooms[r])}
       /\ \A r \in DOMAIN rooms' : rooms'[r] = rooms[r]
       /\ \A r \in DOMAIN rooms : rooms[r].peers # <<>> => r \in DOMAIN rooms'
       /\ outbox' = outbox
    ]_vars

\* a cleanup has just evicted one room and kept another that holds a peer and
\* was last touched more than ROOM_TIMEOUT ago
C15_Witness ==
  /\ last.op = "cleanup_inactive_rooms"
  /\ \E r \in RoomIds : r \notin DOMAIN rooms /\ idleSince[r] # Never
  /\ \E q \in DOMAIN rooms :
       rooms[q].peers # <<>> /\ now - rooms[q].last_activity > ROOM_TIMEOUT

\* C16: whenever a room leaves the registry it holds no peer and has held
\* none for at least ROOM_TIMEOUT up to that moment: no room that held a peer
\* within the last ROOM_TIMEOUT is evicted.
C16_EvictedOnlyAfterIdle ==
  [][\A r \in DOMAIN rooms :
       r \notin DOMAIN rooms' =>
         /\ Called("cleanup_inactive_rooms")
         /\ rooms[r].peers = <<>>
         /\ idleSince[r] # Never
         /\ now - idleSince[r] >= ROOM_TIMEOUT
    ]_vars

\* a join, the leave of that peer and, more than ROOM_TIMEOUT later, the
\* cleanup that evicted the room
C16_Witness ==
  /\ calls = 3
  /\ last.op = "cleanup_inactive_rooms"
  /\ DOMAIN rooms = {}
  /\ pc[1] = "api"
  /\ sent[1] + sent[2] = 2
  /\ \E r \in RoomIds : idleSince[r] # Never /\ now - idleSince[r] > ROOM_TIMEOUT

\* connection c holds a peer of some room
Member(c) == \E r \in DOMAIN rooms : c \in SendersOf(rooms[r])

\* C17: once a joined connection has ended (its inbound or its outbound pump
\* is over and the driver is past its select!), the driver's leave_room
\* eventually runs, after which the peer is in no room and the outbound pump
\* eventually stops; the leave happens once (the driver then does nothing
\* more and the peer stays out), and it leaves the room with a free slot.
C17_EndedConnectionLeaves ==
  /\ \A c \in Conns :
       (pc[c] = "leaving") ~> (pc[c] = "gone" /\ ~Member(c) /\ pump[c] = "ended")
  /\ [][\A c \in Conns :
          /\ (pc[c] = "leaving" /\ pc'[c] # "leaving") =>
               /\ pc'[c] = "gone"
               /\ ~Member(c)'
               /\ Len(rooms'[roomOf[c]].peers) = Len(rooms[roomOf[c]].peers) - 1
               /\ ~is_full(rooms'[roomOf[c]])
          /\ pc[c] = "gone" =>
               pc'[c] = "gone" /\ ~Member(c)' /\ sent'[c] = sent[c]
       ]_vars

\* the third connection runs in the slot that one of the first two freed;
\* that one is gone and its outbound pump has stopped
C17_Witness ==
  /\ pc[3] = "running"
  /\ peerCount[3] = 2
  /\ \E c \in {1, 2} : pc[c] = "gone" /\ pump[c] = "ended" /\ ~Member(c)
  /\ \E d \in {1, 2} : peerCount[d] = 2 /\ Member(d)

Text(msg) == [kind |-> "text", data |-> msg]

Ignored ==
  {Join, Leave, PeerStatus, Error, Pong}
    \cup {room_info(k) : k \in 0..MAX_PEERS_PER_ROOM}

\* C19: a Join, Leave, RoomInfo, PeerStatus, Error or Pong read from a client
\* changes neither the registry nor any outbox; every Join, Leave or RoomInfo
\* appended to an outbox is appended by the join path or the leave path of the
\* connection it is tagged with.
C19_ClientControlNotRelayed ==
  [][/\ \A c \in Conns, m \in Ignored :
          Receive(c, Text(m), MaxPairRecv) =>
            rooms' = rooms /\ outbox' = outbox /\ sent' = sent
     /\ \A d \in Conns :
          \A i \in (Len(outbox[d]) + 1)..Len(outbox'[d]) :
            outbox'[d][i].msg.type \in {"join", "leave", "room_info"} =>
              LET c == outbox'[d][i].src
              IN /\ pc[c] \in {"notify_join", "notify_info", "leaving"}
                 /\ pc'[c] # pc[c]
    ]_vars

\* both frames of the run were read from running connections of one room and
\* were not relayed: nothing but the join notifications is queued or written
C19_Witness ==
  /\ recvd = MaxPairRecv
  /\ \E c, d \in Conns :
       /\ c # d
       /\ pc[c] = "running" /\ pc[d] = "running"
       /\ roomOf[c] = roomOf[d]
       /\ sent[c] = 2 /\ sent[d] = 2
       /\ Len(Stream(c)) + Len(Stream(d)) = 4

\* connection d holds a peer of room r and its receiver is dropped
Stale(d, r) == InRoom(d, r) /\ ~rxOpen[d]

\* connection d holds a peer of room r after the step
InRoomNext(d, r) == r \in DOMAIN rooms' /\ d \in SendersOf(rooms'[r])

\* C20: a relay_message or leave_room that meets a peer whose receiver is
\* dropped completes as usual: nothing is queued for that peer, every other
\* recipient with a receiver gets the message, and the peer stays in the
\* room's list until a leave_room of its own id in that room removes it.
C20_SendFailureSwallowed ==
  [][LET r == last'.room_id
         p == last'.peer_id
         peers == rooms[r].peers
     IN /\ (Called("relay_message") /\ r \in DOMAIN rooms) =>
             /\ rooms' = rooms
             /\ \A i \in 1..Len(peers) :
                  LET d == peers[i].sender
                  IN outbox'[d] =
                       IF peers[i].id # p /\ rxOpen[d]
                         THEN Append(outbox[d], Envelope(Offer, p, sent[p] + 1))
                         ELSE outbox[d]
        /\ (Called("leave_room") /\ r \in DOMAIN rooms) =>
             \A i \in 1..Len(peers) :
               LET d == peers[i].sender
               IN IF i = FirstWithId(peers, p)
                    THEN ~InRoomNext(d, r) /\ outbox'[d] = outbox[d]
                    ELSE /\ InRoomNext(d, r)
                         /\ outbox'[d] =
                              IF rxOpen[d] /\ FirstWithId(peers, p) # 0
                                THEN outbox[d]
                                       \o <<Envelope(Leave, p, sent[p] + 1),
                                            Envelope(room_info(Len(peers) - 1), p,
                                                     sent[p] + 2)>>
                                ELSE outbox[d]
        /\ \A d \in Conns, q \in DOMAIN rooms :
             (Stale(d, q) /\ ~InRoomNext(d, q)) =>
               /\ Called("leave_room") /\ r = q
               /\ FirstWithId(rooms[q].peers, p) # 0
               /\ rooms[q].peers[FirstWithId(rooms[q].peers, p)].sender = d
    ]_vars

\* a relay has just passed over a first peer whose receiver is dropped and
\* reached the second peer of the room; the first is still in the list
C20_Witness ==
  /\ last.op = "relay_message"
  /\ last.room_id \in DOMAIN rooms
  /\ LET peers == rooms[last.room_id].peers
     IN /\ Len(peers) = 2
        /\ ~rxOpen[peers[1].sender]
        /\ peers[1].id # last.peer_id
        /\ outbox[peers[1].sender] = <<>>
        /\ outbox[peers[2].sender]
             = <<Envelope(Offer, last.peer_id, sent[last.peer_id])>>

\* C21: the first frame written to an admitted connection's wire is the
\* RoomInfo acknowledgement with the peer count its own join_room returned;
\* it stays the first frame, so every message relayed into the connection's
\* outbox, queued before the acknowledgement or after, is written behind it.
C21_AckIsFirstFrame ==
  [][\A c \in Conns :
       /\ (pc[c] = "idle" /\ pc'[c] = "ack") =>
            peerCount'[c] = Len(rooms'[roomOf'[c]].peers)
       /\ (pc[c] = "ack" /\ pc'[c] = "ack") =>
            wire'[c] = <<>> /\ peerCount'[c] = peerCount[c]
       /\ (wire[c] = <<>> /\ wire'[c] # <<>> /\ pc[c] # "reject") =>
            /\ pc[c] = "ack"
            /\ wire'[c] = <<Direct(room_info(peerCount[c]))>>
       /\ (wire[c] # <<>> /\ wire'[c] # <<>>) =>
            /\ wire'[c][1] = wire[c][1]
            /\ \A i \in 2..Len(wire'[c]) : wire'[c][i].src # 0
    ]_vars

\* connection c, admitted second, has its acknowledgement on the wire and
\* behind it the Join that its room mate d relayed after c's admission; d's
\* RoomInfo is still queued
C21_Witness ==
  \E c, d \in Conns :
    /\ c # d
    /\ peerCount[c] = 2
    /\ Len(wire[c]) = 2
    /\ wire[c][1] = Direct(room_info(2))
    /\ wire[c][2] = Envelope(Join, d, 1)
    /\ outbox[c] # <<>>
    /\ Head(outbox[c]) = Envelope(room_info(1), d, 2)

====
